---- MODULE Spec2Model ----
(***************************************************************************)
(* Model of the property-search pipeline: the spreadsheet criteria source  *)
(* (google_sheets.py), the listing provider (property_api.py), the mail     *)
(* delivery outcome (email_service.py), configuration loading (config.py)   *)
(* and the orchestrator (main.py).                                          *)
(*                                                                          *)
(* Optional values (Python None) are sequences: <<>> is None, <<v>> is v.   *)
(* Strings are drawn from a finite universe; str.strip, str.lower,          *)
(* str.replace, int() and the substring test are tabulated on it.           *)
(* Non-ASCII characters that the program prints are named: "pound_sign",    *)
(* "accented_letter", "katakana", "check_mark", "cross_mark".               *)
(***************************************************************************)
EXTENDS Integers, Sequences, FiniteSets, TLC

VARIABLES
    pc,                 \* position of the run / of the function under check
    env,                \* os.environ as load_config reads it: variable -> Optional[str]
    stdout,             \* encoding of sys.stdout: "utf-8", "latin-1" or "ascii"
    config,             \* config.propertydata held by main: [use_mock, api_key]
    sheets,             \* config.sheets held by main: GoogleSheetsConfig
    client,             \* api_client object: "unbuilt", "mock", "live" or "double"
    source,             \* the criteria source: [auth, open, fetch, all_values]
    search_params_list, \* list returned by get_search_parameters_from_sheets
    idx,                \* 1-based position of main's for loop
    properties,         \* list returned by the current search_properties call
    events,             \* history of external calls, in order
    raised,             \* uncaught exception that ended the run, or "none"
    sheet_result,       \* outcome of GoogleSheetsReader.get_search_parameters
    params,             \* SearchParameters of the provider call under check
    draws               \* random draws of the latest mock provider call

vars == <<pc, env, stdout, config, sheets, client, source, search_params_list, idx,
          properties, events, raised, sheet_result, params, draws>>

None == <<>>

Some(v) == <<v>>

\* Python truthiness of an Optional[int] / Optional[str]: None, 0 and "" are falsy.
TruthyInt(o) == o # None /\ o[1] # 0

TruthyStr(o) == o # None /\ o[1] # ""

\* int(x) for a quotient of integers: truncation toward zero.
TruncDiv(a, b) == IF a >= 0 THEN a \div b ELSE -((-a) \div b)

Max2(a, b) == IF a >= b THEN a ELSE b

Min2(a, b) == IF a <= b THEN a ELSE b

(***************************************************************************)
(* String primitives on the finite universe of cell texts.                 *)
(***************************************************************************)

\* str.strip(): every other string of the universe has no outer whitespace.
StripOf(s) ==
    CASE s = " " -> ""
      [] s = "   " -> ""
      [] s = " Leeds " -> "Leeds"
      [] s = " location " -> "location"
      [] s = "Location " -> "Location"
      [] s = " 2 " -> "2"
      [] s = " 587 " -> "587"
      [] OTHER -> s

\* str.lower()
LowerOf(s) ==
    CASE s = "Location" -> "location"
      [] s = "City" -> "city"
      [] s = "AREA" -> "area"
      [] s = "Min Price" -> "min price"
      [] s = "Max Price" -> "max price"
      [] s = "Min Bedrooms" -> "min bedrooms"
      [] s = "Max Bedrooms" -> "max bedrooms"
      [] s = "Property Type" -> "property type"
      [] s = "Type" -> "type"
      [] s = "Radius" -> "radius"
      [] s = "Notes" -> "notes"
      [] s = "London" -> "london"
      [] s = "Manchester" -> "manchester"
      [] s = "MANCHESTER" -> "manchester"
      [] s = "Birmingham" -> "birmingham"
      [] s = "Leeds" -> "leeds"
      [] s = "Bristol" -> "bristol"
      [] s = "Atlantis" -> "atlantis"
      [] s = "House" -> "house"
      [] s = "FLAT" -> "flat"
      [] s = "Flat" -> "flat"
      [] s = "TRUE" -> "true"
      [] s = "Castle" -> "castle"
      [] OTHER -> s

\* str.title() on the location names of the universe
TitleOf(s) ==
    CASE s = "MANCHESTER" -> "Manchester"
      [] OTHER -> s

\* value.replace("£", "").replace("$", "").replace(",", "").strip()
CleanedOf(s) ==
    CASE s = "£300,000" -> "300000"
      [] s = "$600,000" -> "600000"
      [] s = "1,000" -> "1000"
      [] s = "£" -> ""
      [] OTHER -> StripOf(s)

\* int(cleaned): the parsed integer, or None where int() raises ValueError.
IntOf(s) ==
    CASE s = "300000" -> Some(300000)
      [] s = "600000" -> Some(600000)
      [] s = "1000" -> Some(1000)
      [] s = "0" -> Some(0)
      [] s = "2" -> Some(2)
      [] s = "4" -> Some(4)
      [] s = "-1" -> Some(-1)
      [] s = "587" -> Some(587)
      [] OTHER -> None

(***************************************************************************)
(* google_sheets.py                                                         *)
(***************************************************************************)

\* possible_names lists of get_search_parameters
LocationNames == <<"location", "city", "area">>

MinPriceNames == <<"min price", "min_price", "minimum price">>

MaxPriceNames == <<"max price", "max_price", "maximum price">>

MinBedroomsNames == <<"min bedrooms", "min_bedrooms">>

MaxBedroomsNames == <<"max bedrooms", "max_bedrooms">>

PropertyTypeNames == <<"property type", "property_type", "type">>

RadiusNames == <<"radius", "radius_miles">>

\* headers.index(name): the first position holding name (1-based here).
IndexOf(headers, name) ==
    CHOOSE i \in 1..Len(headers) :
        headers[i] = name /\ \A j \in 1..(i - 1) : headers[j] # name

InHeaders(headers, name) == \E i \in 1..Len(headers) : headers[i] = name

\* _find_column_index: the first listed name present in headers decides.
RECURSIVE FindFrom(_, _, _)
FindFrom(headers, possible_names, k) ==
    IF k > Len(possible_names) THEN None
    ELSE IF InHeaders(headers, LowerOf(possible_names[k]))
         THEN Some(IndexOf(headers, LowerOf(possible_names[k])))
         ELSE FindFrom(headers, possible_names, k + 1)

FindColumnIndex(headers, possible_names) == FindFrom(headers, possible_names, 1)

\* _parse_int
ParseInt(row, index) ==
    IF index = None \/ index[1] > Len(row) THEN None
    ELSE LET value == StripOf(row[index[1]])
         IN IF value = "" THEN None ELSE IntOf(CleanedOf(value))

\* _parse_string
ParseString(row, index) ==
    IF index = None \/ index[1] > Len(row) THEN None
    ELSE LET value == StripOf(row[index[1]])
         IN IF value = "" THEN None ELSE Some(value)

\* not any(cell.strip() for cell in row)
RowIsEmpty(row) == \A c \in 1..Len(row) : StripOf(row[c]) = ""

\* Mutant of RowLocation: the location cell is read without trimming it.
RowLocationUntrimmed(row, location_idx) ==
    IF location_idx <= Len(row) THEN row[location_idx] ELSE ""

\* row[location_idx].strip() if location_idx < len(row) else ""
RowLocation(row, location_idx) ==
    IF location_idx <= Len(row) THEN StripOf(row[location_idx]) ELSE ""

SearchParameters(location, min_price, max_price, min_bedrooms, max_bedrooms, property_type, radius_miles) ==
    [location |-> location, min_price |-> min_price, max_price |-> max_price,
     min_bedrooms |-> min_bedrooms, max_bedrooms |-> max_bedrooms,
     property_type |-> property_type, radius_miles |-> radius_miles]

\* Normalised header row: [h.strip().lower() for h in all_values[0]]
Headers(all_values) ==
    [c \in 1..Len(all_values[1]) |-> LowerOf(StripOf(all_values[1][c]))]

\* The body of the row loop for one row: the record appended, or nothing.
ParseRow(row, headers) ==
    LET location_idx == FindColumnIndex(headers, LocationNames)[1]
        location == RowLocation(row, location_idx)
    IN IF RowIsEmpty(row) THEN <<>>
       ELSE IF location = "" THEN <<>>
       ELSE << SearchParameters(
                 location,
                 ParseInt(row, FindColumnIndex(headers, MinPriceNames)),
                 ParseInt(row, FindColumnIndex(headers, MaxPriceNames)),
                 ParseInt(row, FindColumnIndex(headers, MinBedroomsNames)),
                 ParseInt(row, FindColumnIndex(headers, MaxBedroomsNames)),
                 ParseString(row, FindColumnIndex(headers, PropertyTypeNames)),
                 ParseInt(row, FindColumnIndex(headers, RadiusNames))) >>

\* for row in all_values[1:]: the records of rows k.. in row order.
RECURSIVE ParseRows(_, _, _)
ParseRows(all_values, headers, k) ==
    IF k > Len(all_values) THEN <<>>
    ELSE ParseRow(all_values[k], headers) \o ParseRows(all_values, headers, k + 1)

\* What a call ends with: a returned value, or the exception it raises.
Returned(v) == [exc |-> "none", value |-> v]

Raises(e) == [exc |-> e, value |-> <<>>]

\* Mutant of ReturnSearchParams: an empty list is returned instead of raising.
ReturnSearchParamsUnchecked(search_params) == Returned(search_params)

\* if not search_params: raise ValueError(...); return search_params
ReturnSearchParams(search_params) ==
    IF search_params = <<>> THEN Raises("ValueError:no_valid_parameters")
    ELSE Returned(search_params)

\* get_search_parameters once the worksheet has been opened and read.
ParseAllValues(all_values) ==
    IF all_values = <<>> THEN Raises("ValueError:worksheet_empty")
    ELSE IF FindColumnIndex(Headers(all_values), LocationNames) = None
         THEN Raises("ValueError:no_location_column")
    ELSE ReturnSearchParams(ParseRows(all_values, Headers(all_values), 2))

\* GoogleSheetsReader.get_search_parameters on an authenticated reader.
GetSearchParameters(src) ==
    IF src.open = "SpreadsheetNotFound" THEN Raises("ValueError:spreadsheet_not_found")
    ELSE IF src.open = "WorksheetNotFound" THEN Raises("ValueError:worksheet_not_found")
    ELSE IF src.open # "ok" THEN Raises("ValueError:error_accessing")
    ELSE IF src.fetch # "ok" THEN Raises("APIError")
    ELSE ParseAllValues(src.all_values)

\* GoogleSheetsReader.__init__ / _authenticate
Authenticate(src) ==
    IF src.auth = "missing_file" THEN Raises("FileNotFoundError")
    ELSE IF src.auth # "ok" THEN Raises("CredentialsError")
    ELSE Returned(<<>>)

(***************************************************************************)
(* property_api.py                                                          *)
(***************************************************************************)

\* random.randint(3, 8): the number of listings of one call
MinProperties == 3

MaxProperties == 8

\* random.randint(1, 5): the bedroom count drawn for a listing
MinBedroomsDraw == 1

MaxBedroomsDraw == 5

\* price = max(80000, min(price, 2000000))
PriceFloor == 80000

PriceCeiling == 2000000

\* base_price + (bedrooms - 2) * 50000
BedroomBase == 2

BedroomStep == 50000

AllPropertyTypes == <<"house", "flat", "bungalow", "terraced house", "semi-detached house">>

\* needle in pt.lower(), for the lower-cased type hints of the universe
IsSubstring(needle, pt) ==
    CASE needle = "house" -> pt \in {"house", "terraced house", "semi-detached house"}
      [] needle = "flat" -> pt = "flat"
      [] needle = "bungalow" -> pt = "bungalow"
      [] needle = "terraced" -> pt = "terraced house"
      [] needle = "e" -> pt \in {"house", "terraced house", "semi-detached house"}
      [] OTHER -> FALSE

\* [pt for pt in property_types if params.property_type.lower() in pt.lower()]
RECURSIVE FilterTypes(_, _, _)
FilterTypes(types, needle, k) ==
    IF k > Len(types) THEN <<>>
    ELSE (IF IsSubstring(needle, LowerOf(types[k])) THEN <<types[k]>> ELSE <<>>)
         \o FilterTypes(types, needle, k + 1)

\* Mutant of PropertyTypes: the requested type does not narrow the candidates.
PropertyTypesUnfiltered(p) == AllPropertyTypes

\* The candidate property types of a call.
PropertyTypes(p) ==
    IF TruthyStr(p.property_type)
    THEN LET kept == FilterTypes(AllPropertyTypes, LowerOf(p.property_type[1]), 1)
         IN IF kept = <<>> THEN <<"house">> ELSE kept
    ELSE AllPropertyTypes

\* areas.get(location_lower, ["SW1", "M1", "B1"])
Postcodes(location_lower) ==
    CASE location_lower = "london" -> <<"SW1", "SW2", "NW1", "NW3", "E1", "E2", "W1", "W2">>
      [] location_lower = "manchester" -> <<"M1", "M2", "M3", "M4", "M14", "M20">>
      [] location_lower = "birmingham" -> <<"B1", "B2", "B3", "B15", "B16", "B17">>
      [] location_lower = "leeds" -> <<"LS1", "LS2", "LS6", "LS7", "LS8">>
      [] location_lower = "bristol" -> <<"BS1", "BS2", "BS3", "BS6", "BS7">>
      [] OTHER -> <<"SW1", "M1", "B1">>

\* base_prices[location_key][type_key] with both fallbacks
BasePrice(location_lower, property_type) ==
    LET location_key == IF location_lower \in {"london", "manchester", "birmingham"}
                        THEN location_lower ELSE "birmingham"
        type_key == IF property_type \in {"house", "flat", "bungalow"}
                    THEN property_type ELSE "house"
    IN CASE location_key = "london" ->
               (CASE type_key = "house" -> 600000
                  [] type_key = "flat" -> 400000
                  [] OTHER -> 500000)
         [] location_key = "manchester" ->
               (CASE type_key = "house" -> 250000
                  [] type_key = "flat" -> 150000
                  [] OTHER -> 200000)
         [] OTHER ->
               (CASE type_key = "house" -> 200000
                  [] type_key = "flat" -> 120000
                  [] OTHER -> 180000)

\* random.choice(seq) for a drawn position pick >= 0
Choice(seq, pick) == seq[(pick % Len(seq)) + 1]

\* Mutant of FilterBedrooms: the upper bound is not applied.
FilterBedroomsMinOnly(p, drawn) ==
    IF TruthyInt(p.min_bedrooms) /\ drawn < p.min_bedrooms[1]
    THEN p.min_bedrooms[1] ELSE drawn

\* Apply bedroom filter if specified
FilterBedrooms(p, drawn) ==
    LET b1 == IF TruthyInt(p.min_bedrooms) /\ drawn < p.min_bedrooms[1]
              THEN p.min_bedrooms[1] ELSE drawn
    IN IF TruthyInt(p.max_bedrooms) /\ b1 > p.max_bedrooms[1]
       THEN p.max_bedrooms[1] ELSE b1

\* int(price * random.uniform(0.8, 1.3)), the factor given in percent
VaryPrice(price, percent) == TruncDiv(price * percent, 100)

\* Mutant of FilterPrice: the upper bound is not applied.
FilterPriceMinOnly(p, price, min_bump, max_bump) ==
    IF TruthyInt(p.min_price) /\ price < p.min_price[1]
    THEN p.min_price[1] + min_bump ELSE price

\* Mutant of FilterPrice: the maximum is applied before the minimum.
FilterPriceMaxFirst(p, price, min_bump, max_bump) ==
    LET p1 == IF TruthyInt(p.max_price) /\ price > p.max_price[1]
              THEN p.max_price[1] - max_bump ELSE price
    IN IF TruthyInt(p.min_price) /\ p1 < p.min_price[1]
       THEN p.min_price[1] + min_bump ELSE p1

\* Apply price filters: min_bump and max_bump are the two random.randint(10000, 50000)
FilterPrice(p, price, min_bump, max_bump) ==
    LET p1 == IF TruthyInt(p.min_price) /\ price < p.min_price[1]
              THEN p.min_price[1] + min_bump ELSE price
    IN IF TruthyInt(p.max_price) /\ p1 > p.max_price[1]
       THEN p.max_price[1] - max_bump ELSE p1

\* Mutant of ClampPrice: the absolute floor is not applied.
ClampPriceCeilingOnly(price) == Min2(price, PriceCeiling)

\* Ensure price is reasonable
ClampPrice(price) == Max2(PriceFloor, Min2(price, PriceCeiling))

\* One iteration of the generation loop under the random draws d.  The listing
\* keeps the fields the pipeline's properties speak of; address, description,
\* url and area are derived from further draws and read by the formatter only.
MockListing(p, d) ==
    LET location_lower == LowerOf(p.location)
        property_type == Choice(PropertyTypes(p), d.type_pick)
        bedrooms == FilterBedrooms(p, d.bedrooms)
        price0 == BasePrice(location_lower, property_type)
                      + (bedrooms - BedroomBase) * BedroomStep
        price1 == VaryPrice(price0, d.percent)
        price2 == FilterPrice(p, price1, d.min_bump, d.max_bump)
    IN [price |-> ClampPrice(price2),
        bedrooms |-> bedrooms,
        bathrooms |-> Min2(bedrooms, d.bathrooms),
        property_type |-> property_type,
        postcode_area |-> Choice(Postcodes(location_lower), d.area_pick),
        location |-> TitleOf(p.location)]

\* Mutant of SortByPrice: the list is returned in generation order.
SortByPriceSkipped(list) == list

\* list.sort(key=lambda p: p.price): stable insertion by ascending price
RECURSIVE InsertByPrice(_, _)
InsertByPrice(sorted, x) ==
    IF sorted = <<>> THEN <<x>>
    ELSE IF sorted[Len(sorted)].price <= x.price THEN Append(sorted, x)
    ELSE Append(InsertByPrice(SubSeq(sorted, 1, Len(sorted) - 1), x), sorted[Len(sorted)])

RECURSIVE SortFrom(_, _, _)
SortFrom(list, k, acc) ==
    IF k > Len(list) THEN acc
    ELSE SortFrom(list, k + 1, InsertByPrice(acc, list[k]))

SortByPrice(list) == SortFrom(list, 1, <<>>)

\* _fetch_from_mock_api under the draws of tape, one entry per listing
FetchFromMockApi(p, tape) ==
    SortByPrice([i \in 1..Len(tape) |-> MockListing(p, tape[i])])

\* Mutant of NewPropertyAPIClient: the credential is not checked.
NewPropertyAPIClientUnchecked(cfg) == Returned(IF cfg.use_mock THEN "mock" ELSE "live")

\* PropertyAPIClient.__init__
NewPropertyAPIClient(cfg) ==
    IF ~cfg.use_mock /\ cfg.api_key = "" THEN Raises("ValueError:api_key_required")
    ELSE Returned(IF cfg.use_mock THEN "mock" ELSE "live")

\* Mutant of FetchFromRealApi: the live strategy answers with an empty list.
FetchFromRealApiEmpty(p) == Returned(<<>>)

\* _fetch_from_real_api
FetchFromRealApi(p) == Raises("NotImplementedError")

(***************************************************************************)
(* email_service.py                                                         *)
(***************************************************************************)

\* What the SMTP conversation of one send_email call can end with.
SmtpOutcomes == {"sent", "SMTPAuthenticationError", "SMTPException", "Exception"}

\* print(...) to a stdout of the given encoding succeeds iff the encoding
\* has the character; otherwise print raises UnicodeEncodeError.
Encodes(enc, char) ==
    CASE enc = "utf-8" -> TRUE
      [] enc = "latin-1" -> char \in {"pound_sign", "accented_letter"}
      [] OTHER -> FALSE

\* The non-ASCII characters of the strings of the universe.
NonAsciiOf(s) ==
    CASE s = "£300,000" -> {"pound_sign"}
      [] s = "£" -> {"pound_sign"}
      [] s = "£@example.com" -> {"pound_sign"}
      [] s = "clés.json" -> {"accented_letter"}
      [] s = "accès refusé" -> {"accented_letter"}
      [] s = "シート1" -> {"katakana"}
      [] OTHER -> {}

\* print(s) succeeds iff stdout has every character of s.
PrintsText(enc, s) == \A char \in NonAsciiOf(s) : Encodes(enc, char)

\* send_email: the SMTP conversation, then the print of the exit path taken.
\* True when the message went out and the success line was printed; a failed
\* success print is caught by `except Exception`, whose handler prints again;
\* False for every caught exception whose handler's print succeeds; a print
\* that fails inside a handler leaves send_email as UnicodeEncodeError.
SendEmail(outcome, enc) ==
    IF outcome = "sent" /\ Encodes(enc, "check_mark") THEN Returned(TRUE)
    ELSE IF Encodes(enc, "cross_mark") THEN Returned(FALSE)
    ELSE Raises("UnicodeEncodeError")

(***************************************************************************)
(* config.py                                                                *)
(***************************************************************************)

\* os.getenv(name, default)
EnvValue(e, name, default) == IF e[name] = None THEN default ELSE e[name]

\* _get_env(name, required=..., default=...)
GetEnv(e, name, required, default) ==
    IF required /\ (EnvValue(e, name, default) = None
                    \/ StripOf(EnvValue(e, name, default)[1]) = "")
    THEN Raises("RuntimeError:missing_environment_variable")
    ELSE Returned(EnvValue(e, name, default))

\* int(...) of the SMTP port; int() ignores surrounding whitespace
ParsePort(s) ==
    IF IntOf(StripOf(s)) = None THEN Raises("ValueError:invalid_literal_for_int")
    ELSE Returned(IntOf(StripOf(s))[1])

\* _get_env("USE_MOCK_API", required=False, default="true").lower() == "true"
UseMock(e) == LowerOf(GetEnv(e, "USE_MOCK_API", FALSE, Some("true")).value[1]) = "true"

\* The first exception of a sequence of call outcomes, in call order.
FirstRaised(excs) ==
    IF \A k \in 1..Len(excs) : excs[k] = "none" THEN "none"
    ELSE excs[CHOOSE k \in 1..Len(excs) :
                  excs[k] # "none" /\ \A j \in 1..(k - 1) : excs[j] = "none"]

\* load_config: the variables are read in the order of the source
LoadConfig(e) ==
    LET port == GetEnv(e, "SMTP_PORT", TRUE, None)
        api_key == GetEnv(e, "PROPERTYDATA_API_KEY", ~UseMock(e), Some(""))
        excs == <<GetEnv(e, "SMTP_HOST", TRUE, None).exc,
                  port.exc,
                  IF port.exc = "none" THEN ParsePort(port.value[1]).exc ELSE "none",
                  GetEnv(e, "SMTP_USERNAME", TRUE, None).exc,
                  GetEnv(e, "SMTP_PASSWORD", TRUE, None).exc,
                  GetEnv(e, "EMAIL_FROM", TRUE, None).exc,
                  GetEnv(e, "EMAIL_TO", TRUE, None).exc,
                  api_key.exc,
                  GetEnv(e, "GOOGLE_SHEETS_CREDENTIALS_JSON", TRUE, None).exc,
                  GetEnv(e, "GOOGLE_SHEETS_SPREADSHEET_ID", TRUE, None).exc,
                  GetEnv(e, "GOOGLE_SHEETS_WORKSHEET_NAME", TRUE, None).exc>>
    IN IF FirstRaised(excs) # "none" THEN Raises(FirstRaised(excs))
       ELSE Returned(
                [smtp |-> [host |-> e["SMTP_HOST"][1],
                           port |-> ParsePort(port.value[1]).value,
                           username |-> e["SMTP_USERNAME"][1],
                           password |-> e["SMTP_PASSWORD"][1],
                           email_from |-> e["EMAIL_FROM"][1],
                           email_to |-> e["EMAIL_TO"][1]],
                 propertydata |-> [use_mock |-> UseMock(e), api_key |-> api_key.value[1]],
                 sheets |-> [credentials_json |-> e["GOOGLE_SHEETS_CREDENTIALS_JSON"][1],
                             spreadsheet_id |-> e["GOOGLE_SHEETS_SPREADSHEET_ID"][1],
                             worksheet_name |-> e["GOOGLE_SHEETS_WORKSHEET_NAME"][1]]])

(***************************************************************************)
(* main.py                                                                  *)
(***************************************************************************)

\* The hardcoded fallback of get_search_parameters_from_sheets.
Fallback == SearchParameters("London", Some(300000), Some(600000), Some(2), Some(4),
                             Some("house"), None)

\* try: GoogleSheetsReader(config.sheets).get_search_parameters()
ReadSheets(src) ==
    IF Authenticate(src).exc # "none" THEN Authenticate(src)
    ELSE GetSearchParameters(src)

\* for params in search_params_list: print(f"  - {params.location}")
PrintsLocations(list, enc) == \A i \in 1..Len(list) : PrintsText(enc, list[i].location)

\* The text that the message of the exception of the try body embeds: the
\* credentials path, the spreadsheet id, the worksheet name, or the message of
\* the library's own exception; the messages of the parser are fixed ASCII.
ErrorText(src, sh) ==
    IF src.auth = "missing_file" THEN sh.credentials_json
    ELSE IF src.auth # "ok" THEN src.detail
    ELSE IF src.open = "SpreadsheetNotFound" THEN sh.spreadsheet_id
    ELSE IF src.open = "WorksheetNotFound" THEN sh.worksheet_name
    ELSE IF src.open # "ok" THEN src.detail
    ELSE IF src.fetch # "ok" THEN src.detail
    ELSE ""

\* get_search_parameters_from_sheets: the reader's list once its locations
\* are printed.  Any exception of the try body is caught by `except
\* Exception`, whose handler first prints the exception: when the message
\* cannot be printed the UnicodeEncodeError leaves the function, otherwise
\* the result is [fallback].  The message of a UnicodeEncodeError raised by
\* a print inside the try is ASCII (the character is escaped).
GetSearchParametersFromSheets(src, sh, enc) ==
    IF ReadSheets(src).exc # "none"
    THEN IF PrintsText(enc, ErrorText(src, sh)) THEN Returned(<<Fallback>>)
         ELSE Raises("UnicodeEncodeError")
    ELSE IF ~PrintsLocations(ReadSheets(src).value, enc) THEN Returned(<<Fallback>>)
    ELSE Returned(ReadSheets(src).value)

\* The header lines of run_search_and_email: the location and, when given,
\* the property type are printed before the provider is called.
PrintsCriteria(p, enc) ==
    /\ PrintsText(enc, p.location)
    /\ TruthyStr(p.property_type) => PrintsText(enc, p.property_type[1])

\* One external call of the run: its kind, the record it is for, whether it
\* succeeded, and the length of the listing list it returned or was given.
Event(op, rec, ok, count) == [op |-> op, rec |-> rec, ok |-> ok, count |-> count]

\* Mutant of ShouldSend: the report is dispatched whatever the list holds.
ShouldSendAlways(props) == TRUE

\* if properties:
ShouldSend(props) == props # <<>>

\* for i, prop in enumerate(properties[:5], 1)
ShownListings == 5

\* The printout of the first listings: the address and the description carry
\* the titled location, the price follows a pound sign, then the type.
PrintsListings(props, enc) ==
    \A i \in 1..Min2(ShownListings, Len(props)) :
        /\ PrintsText(enc, props[i].location)
        /\ Encodes(enc, "pound_sign")
        /\ PrintsText(enc, props[i].property_type)

\* Mutant of NextIndex: the loop does not advance to the next record.
NextIndexStuck(i) == i

\* for search_params in search_params_list: the record after record i
NextIndex(i) == i + 1

\* The position after the loop body of record i: the next record, or the end.
AfterRecord(list, i) == IF NextIndex(i) > Len(list) THEN "done" ELSE "search"

(***************************************************************************)
(* Inputs: random draws                                                     *)
(***************************************************************************)

\* random.uniform(0.8, 1.3), in percent: both ends and the neutral factor
Percents == <<80, 100, 130>>

\* random.randint(10000, 50000): both ends
Bumps == <<10000, 50000>>

NumDraws == 5 * 5 * 3 * 2 * 2

\* The k-th combination of the draws of one loop iteration.
DrawAt(k) ==
    [bedrooms |-> MinBedroomsDraw + (k % (MaxBedroomsDraw - MinBedroomsDraw + 1)),
     type_pick |-> (k \div 5) % 5,
     percent |-> Percents[((k \div 25) % 3) + 1],
     min_bump |-> Bumps[((k \div 75) % 2) + 1],
     max_bump |-> Bumps[((k \div 150) % 2) + 1],
     area_pick |-> k % 8,
     bathrooms |-> (k % 3) + 1]

\* Distances between the draws of consecutive iterations of one call.
Strides == {0, 1, 7, 31}

\* The draws of a call producing n listings: those at start, start + stride, ...
Tape(n, start, stride) ==
    [i \in 1..n |-> DrawAt((start + (i - 1) * stride) % NumDraws)]

Tapes ==
    {Tape(n, start, stride) : n \in MinProperties..MaxProperties,
                              start \in 0..(NumDraws - 1), stride \in Strides}

\* The draws the whole-run specifications take per record.
RunTapes == {Tape(3, 0, 7), Tape(4, 290, 31), Tape(8, 123, 1)}

(***************************************************************************)
(* Inputs: search criteria of the provider calls                            *)
(***************************************************************************)

\* Bedroom bounds: absent, zero, negative, inside and above the drawn range 1..5.
BedroomBounds == {None, Some(0), Some(-1), Some(2), Some(3), Some(7)}

\* Price bounds: absent, zero, negative, around the floor, mid-market and
\* around the ceiling.
PriceBounds == {None, Some(0), Some(-100000), Some(29999), Some(30000),
                Some(450000), Some(2050000), Some(2050001)}

MockCriteria ==
    {SearchParameters("Leeds", None, None, lo, hi, None, None) :
         lo \in BedroomBounds, hi \in BedroomBounds}
    \union
    {SearchParameters("London", lo, hi, None, None, None, None) :
         lo \in PriceBounds, hi \in PriceBounds}
    \union
    {Fallback,
     SearchParameters("Manchester", None, None, Some(2), Some(2), Some("flat"), None),
     SearchParameters("MANCHESTER", Some(100000), Some(100000), Some(7), Some(7),
                      Some("Castle"), Some(5)),
     SearchParameters("Bristol", Some(450000), Some(30000), Some(3), Some(2),
                      Some("e"), None),
     SearchParameters("Atlantis", None, Some(2050000), Some(-1), Some(-1),
                      Some("FLAT"), None),
     SearchParameters("Birmingham", Some(2050001), None, None, Some(0),
                      Some(""), None),
     SearchParameters("London", Some(450000), Some(80000), None, None, None, None),
     SearchParameters("London", None, Some(79999), None, None, None, None)}

(***************************************************************************)
(* Inputs: worksheets                                                       *)
(***************************************************************************)

\* Most data rows of a generated worksheet.
MaxRows == 3

FullHeader == <<"Location", "Min Price", "Max Price", "Min Bedrooms", "Max Bedrooms",
                "Property Type", "Radius">>

HeaderRows ==
    {FullHeader,
     <<"Notes", " location ", "Type">>,
     <<"AREA", "City", "max_price">>,
     <<"Notes", "Min Price">>}

LondonRow == <<"London", "£300,000", "$600,000", "2", "4", "House", "0">>

ManchesterRow == <<"Manchester", "1,000", " 2 ", "-1", "", "flat">>

DataRows ==
    {LondonRow,
     ManchesterRow,
     <<" Leeds ", "Manchester", "abc">>,
     <<"", "", "">>,
     <<>>,
     <<" ", "Bristol">>,
     <<"Atlantis">>,
     <<"   ", "", "flat">>}

RECURSIVE RowLists(_)
RowLists(n) ==
    IF n = 0 THEN {<<>>}
    ELSE RowLists(n - 1)
         \union {Append(rows, r) : rows \in {l \in RowLists(n - 1) : Len(l) = n - 1},
                                   r \in DataRows}

Worksheets ==
    {<<>>} \union {<<h>> \o rows : h \in HeaderRows, rows \in RowLists(MaxRows)}

\* The criteria source: the outcome of authentication, of opening the
\* worksheet and of reading it, the cells, and the message of the library's
\* exception when one of the three fails.
Source(auth, open, fetch, all_values) ==
    [auth |-> auth, open |-> open, fetch |-> fetch, all_values |-> all_values,
     detail |-> "api error"]

\* A source whose credentials, spreadsheet and worksheet are all reachable.
Healthy(all_values) == Source("ok", "ok", "ok", all_values)

\* The sources the function-level specification of the reader runs on.
ReaderSources ==
    {Healthy(w) : w \in Worksheets}
    \union {Source("ok", o, "ok", <<FullHeader, LondonRow>>) :
                o \in {"SpreadsheetNotFound", "WorksheetNotFound", "APIError"}}
    \union {Source("ok", "ok", "APIError", <<FullHeader, LondonRow>>)}

\* The sources the whole-run specifications start from.
RunSources ==
    {Source("missing_file", "ok", "ok", <<FullHeader, LondonRow>>),
     Source("invalid_file", "ok", "ok", <<FullHeader, LondonRow>>),
     Source("ok", "SpreadsheetNotFound", "ok", <<FullHeader, LondonRow>>),
     Source("ok", "WorksheetNotFound", "ok", <<FullHeader, LondonRow>>),
     Source("ok", "APIError", "ok", <<FullHeader, LondonRow>>),
     Source("ok", "ok", "APIError", <<FullHeader, LondonRow>>),
     Healthy(<<>>),
     Healthy(<<<<"Notes", "Min Price">>, LondonRow>>),
     Healthy(<<FullHeader>>),
     Healthy(<<FullHeader, <<"", "", "">>, <<"   ", "", "flat">> >>),
     Healthy(<<FullHeader, LondonRow>>),
     Healthy(<<FullHeader, ManchesterRow, <<>>, LondonRow>>),
     Healthy(<<<<"Notes", " location ", "Type">>, <<" ", "Bristol">>, <<"Atlantis">>,
               <<" Leeds ", "Manchester", "abc">> >>),
     Healthy(<<<<"Notes", " location ", "Type">>, LondonRow>>),
     Healthy(<<<<"Notes", " location ", "Type">>, ManchesterRow, LondonRow>>),
     Healthy(<<<<"Location", "Type">>, LondonRow, ManchesterRow>>),
     [Source("ok", "APIError", "ok", <<FullHeader, LondonRow>>)
          EXCEPT !.detail = "accès refusé"],
     [Source("invalid_file", "ok", "ok", <<FullHeader, LondonRow>>)
          EXCEPT !.detail = "accès refusé"],
     [Source("ok", "ok", "APIError", <<FullHeader, LondonRow>>)
          EXCEPT !.detail = "accès refusé"]}

\* An environment with every variable of load_config set.
BaseEnv ==
    [SMTP_HOST |-> Some("smtp.example.com"), SMTP_PORT |-> Some("587"),
     SMTP_USERNAME |-> Some("user"), SMTP_PASSWORD |-> Some("password"),
     EMAIL_FROM |-> Some("bot@example.com"), EMAIL_TO |-> Some("me@example.com"),
     USE_MOCK_API |-> Some("true"), PROPERTYDATA_API_KEY |-> Some("secret"),
     GOOGLE_SHEETS_CREDENTIALS_JSON |-> Some("credentials.json"),
     GOOGLE_SHEETS_SPREADSHEET_ID |-> Some("sheet-id"),
     GOOGLE_SHEETS_WORKSHEET_NAME |-> Some("Sheet1")]

\* The variables load_config requires whatever the mode.
RequiredNames ==
    {"SMTP_HOST", "SMTP_PORT", "SMTP_USERNAME", "SMTP_PASSWORD", "EMAIL_FROM",
     "EMAIL_TO", "GOOGLE_SHEETS_CREDENTIALS_JSON", "GOOGLE_SHEETS_SPREADSHEET_ID",
     "GOOGLE_SHEETS_WORKSHEET_NAME"}

\* Environments of a run: every mode flag with every credential; each required
\* variable unset or blank; a port that is not a number, alone, padded, and
\* together with a later variable unset.
Environments ==
    {[BaseEnv EXCEPT !["USE_MOCK_API"] = m, !["PROPERTYDATA_API_KEY"] = k] :
         m \in {None, Some("true"), Some("TRUE"), Some("false"), Some("")},
         k \in {None, Some(""), Some(" "), Some("secret")}}
    \union {[BaseEnv EXCEPT ![n] = v] : n \in RequiredNames, v \in {None, Some(" ")}}
    \union {[BaseEnv EXCEPT !["SMTP_PORT"] = Some("abc")],
            [BaseEnv EXCEPT !["SMTP_PORT"] = Some(" 587 ")],
            [BaseEnv EXCEPT !["SMTP_PORT"] = Some("abc"), !["SMTP_USERNAME"] = None],
            [BaseEnv EXCEPT !["SMTP_PORT"] = Some("abc"), !["SMTP_HOST"] = None],
            [BaseEnv EXCEPT !["USE_MOCK_API"] = Some("false"),
                            !["PROPERTYDATA_API_KEY"] = None,
                            !["GOOGLE_SHEETS_SPREADSHEET_ID"] = None],
            [BaseEnv EXCEPT !["GOOGLE_SHEETS_WORKSHEET_NAME"] = Some("シート1")],
            [BaseEnv EXCEPT !["GOOGLE_SHEETS_SPREADSHEET_ID"] = Some("£")],
            [BaseEnv EXCEPT !["GOOGLE_SHEETS_CREDENTIALS_JSON"] = Some("clés.json")],
            [BaseEnv EXCEPT !["EMAIL_FROM"] = Some("£@example.com")]}

\* GoogleSheetsConfig objects handed to main directly.
SheetsConfigs ==
    {[credentials_json |-> "credentials.json", spreadsheet_id |-> "sheet-id",
      worksheet_name |-> n] : n \in {"Sheet1", "シート1"}}

\* PropertyDataConfig objects handed to main directly.
Configs == [use_mock : BOOLEAN, api_key : {"", "secret"}]

\* Encodings of sys.stdout: all characters, Latin-1 only, ASCII only.
StdoutEncodings == {"utf-8", "latin-1", "ascii"}

\* Lists a substituted api_client answers search_properties with.
CannedResults ==
    {<<>>,
     FetchFromMockApi(Fallback, Tape(3, 0, 7)),
     FetchFromMockApi(Fallback, Tape(4, 290, 31))}

\* Criteria lists handed to the loop of main when it is driven directly.
DrivenLists ==
    {<<Fallback>>,
     <<Fallback, SearchParameters("Leeds", None, None, None, None, None, None)>>,
     <<SearchParameters("Manchester", None, None, Some(2), Some(2), Some("flat"), None),
       Fallback,
       SearchParameters("Atlantis", None, Some(2050000), None, None, None, None)>>,
     <<SearchParameters("Leeds", None, None, None, None, None, None),
       SearchParameters("£300,000", None, None, None, None, Some("$600,000"), None)>>,
     <<SearchParameters("London", None, None, None, None, Some("£"), None), Fallback>>}

NoEnv == BaseEnv

NoConfig == [use_mock |-> TRUE, api_key |-> ""]

NoSheets ==
    [credentials_json |-> "credentials.json", spreadsheet_id |-> "sheet-id",
     worksheet_name |-> "Sheet1"]

NoSource == Healthy(<<>>)

NoParams == Fallback

(***************************************************************************)
(* Actions of a whole run (main)                                            *)
(***************************************************************************)

Crash(exc) == pc' = "crashed" /\ raised' = exc

\* config = load_app_config(): load_config, then the summary lines are printed
LoadAppConfig ==
    /\ pc = "start"
    /\ IF LoadConfig(env).exc # "none"
       THEN Crash(LoadConfig(env).exc) /\ UNCHANGED <<config, sheets>>
       ELSE IF ~PrintsText(stdout, LoadConfig(env).value.smtp.email_from)
       THEN Crash("UnicodeEncodeError") /\ UNCHANGED <<config, sheets>>
       ELSE /\ pc' = "configured"
            /\ config' = LoadConfig(env).value.propertydata
            /\ sheets' = LoadConfig(env).value.sheets
            /\ UNCHANGED raised
    /\ UNCHANGED <<env, stdout, client, source, search_params_list, idx, properties, events,
                   sheet_result, params, draws>>

\* api_client = PropertyAPIClient(config.propertydata); email_service = EmailService(...)
BuildClients ==
    /\ pc = "configured"
    /\ IF NewPropertyAPIClient(config).exc # "none"
       THEN Crash(NewPropertyAPIClient(config).exc) /\ UNCHANGED client
       ELSE pc' = "read_criteria" /\ client' = NewPropertyAPIClient(config).value
            /\ UNCHANGED raised
    /\ UNCHANGED <<env, stdout, config, sheets, source, search_params_list, idx, properties, events,
                   sheet_result, params, draws>>

\* search_params_list = get_search_parameters_from_sheets(config), then the loop starts
ReadCriteria ==
    /\ pc = "read_criteria"
    /\ IF GetSearchParametersFromSheets(source, sheets, stdout).exc # "none"
       THEN Crash(GetSearchParametersFromSheets(source, sheets, stdout).exc)
            /\ UNCHANGED <<search_params_list, idx>>
       ELSE /\ search_params_list' = GetSearchParametersFromSheets(source, sheets, stdout).value
            /\ idx' = 1
            /\ pc' = AfterRecord(GetSearchParametersFromSheets(source, sheets, stdout).value, 0)
            /\ UNCHANGED raised
    /\ sheet_result' = ReadSheets(source)
    /\ events' = Append(events, Event("read_criteria", 0, ReadSheets(source).exc = "none",
                                      Len(ReadSheets(source).value)))
    /\ UNCHANGED <<env, stdout, config, sheets, client, source, properties, params, draws>>

\* properties = api_client.search_properties(search_params), by the client's kind
FetchListings ==
    /\ CASE client = "mock" ->
              /\ \E tape \in RunTapes :
                     /\ properties' = FetchFromMockApi(search_params_list[idx], tape)
                     /\ draws' = tape
              /\ pc' = "report"
              /\ UNCHANGED raised
         [] client = "double" ->
              /\ \E canned \in CannedResults : properties' = canned
              /\ pc' = "report"
              /\ UNCHANGED <<raised, draws>>
         [] OTHER ->
              /\ IF FetchFromRealApi(search_params_list[idx]).exc # "none"
                 THEN /\ Crash(FetchFromRealApi(search_params_list[idx]).exc)
                      /\ UNCHANGED properties
                 ELSE /\ properties' = FetchFromRealApi(search_params_list[idx]).value
                      /\ pc' = "report"
                      /\ UNCHANGED raised
              /\ UNCHANGED draws
    /\ events' = Append(events, Event("fetch", idx, pc' = "report", Len(properties')))

\* the header lines of run_search_and_email, then the provider call
SearchProperties ==
    /\ pc = "search"
    /\ IF ~PrintsCriteria(search_params_list[idx], stdout)
       THEN /\ Crash("UnicodeEncodeError")
            /\ UNCHANGED <<properties, draws, events>>
       ELSE FetchListings
    /\ UNCHANGED <<env, stdout, config, sheets, client, source, search_params_list, idx, sheet_result,
                   params>>

\* print the listings; if properties: email_service.send_email(...) else: skip;
\* then the next record.  A send event records whether the message went out.
Report ==
    /\ pc = "report"
    /\ IF ~PrintsListings(properties, stdout)
       THEN /\ Crash("UnicodeEncodeError")
            /\ UNCHANGED <<events, idx>>
       ELSE IF ShouldSend(properties)
       THEN \E outcome \in SmtpOutcomes :
                /\ events' = Append(events, Event("send", idx, outcome = "sent",
                                                  Len(properties)))
                /\ IF SendEmail(outcome, stdout).exc # "none"
                   THEN /\ Crash(SendEmail(outcome, stdout).exc)
                        /\ UNCHANGED idx
                   ELSE /\ idx' = NextIndex(idx)
                        /\ pc' = AfterRecord(search_params_list, idx)
                        /\ UNCHANGED raised
       ELSE /\ events' = Append(events, Event("skip", idx, TRUE, Len(properties)))
            /\ idx' = NextIndex(idx)
            /\ pc' = AfterRecord(search_params_list, idx)
            /\ UNCHANGED raised
    /\ UNCHANGED <<env, stdout, config, sheets, client, source, search_params_list, properties,
                   sheet_result, params, draws>>

Init ==
    /\ pc = "start"
    /\ env \in Environments
    /\ stdout \in StdoutEncodings
    /\ config = NoConfig
    /\ sheets = NoSheets
    /\ client = "unbuilt"
    /\ source \in RunSources
    /\ search_params_list = <<>>
    /\ idx = 0
    /\ properties = <<>>
    /\ events = <<>>
    /\ raised = "none"
    /\ sheet_result = Returned(<<>>)
    /\ params = NoParams
    /\ draws = <<>>

Next == LoadAppConfig \/ BuildClients \/ ReadCriteria \/ SearchProperties \/ Report

Spec == Init /\ [][Next]_vars

(***************************************************************************)
(* The run with its collaborators handed in: main from a given config       *)
(* object, and the loop of main driven with a substituted api_client.       *)
(***************************************************************************)

InitDriven ==
    /\ env = NoEnv
    /\ stdout \in StdoutEncodings
    /\ draws = <<>>
    /\ source \in RunSources
    /\ properties = <<>>
    /\ events = <<>>
    /\ raised = "none"
    /\ sheet_result = Returned(<<>>)
    /\ params = NoParams
    /\ \/ /\ pc = "configured"
          /\ config \in Configs
          /\ sheets \in SheetsConfigs
          /\ client = "unbuilt"
          /\ search_params_list = <<>>
          /\ idx = 0
       \/ /\ pc = "search"
          /\ config = NoConfig
          /\ sheets = NoSheets
          /\ client = "double"
          /\ search_params_list \in DrivenLists
          /\ idx = 1

NextDriven == BuildClients \/ ReadCriteria \/ SearchProperties \/ Report

SpecDriven == InitDriven /\ [][NextDriven]_vars

(***************************************************************************)
(* GoogleSheetsReader.get_search_parameters called on its own               *)
(***************************************************************************)

CallGetSearchParameters ==
    /\ pc = "reader"
    /\ sheet_result' = GetSearchParameters(source)
    /\ pc' = "read"
    /\ UNCHANGED <<env, stdout, config, sheets, client, source, search_params_list, idx, properties,
                   events, raised, params, draws>>

InitReader ==
    /\ pc = "reader"
    /\ draws = <<>>
    /\ source \in ReaderSources
    /\ env = NoEnv
    /\ stdout = "utf-8"
    /\ config = NoConfig
    /\ sheets = NoSheets
    /\ client = "unbuilt"
    /\ search_params_list = <<>>
    /\ idx = 0
    /\ properties = <<>>
    /\ events = <<>>
    /\ raised = "none"
    /\ sheet_result = Returned(<<>>)
    /\ params = NoParams

SpecReader == InitReader /\ [][CallGetSearchParameters]_vars

(***************************************************************************)
(* PropertyAPIClient.search_properties of a mock client called on its own   *)
(***************************************************************************)

CallMockApi ==
    /\ pc = "provider"
    /\ \E tape \in Tapes :
           /\ properties' = FetchFromMockApi(params, tape)
           /\ draws' = tape
    /\ pc' = "fetched"
    /\ UNCHANGED <<env, stdout, config, sheets, client, source, search_params_list, idx, events,
                   raised, sheet_result, params>>

InitProvider ==
    /\ pc = "provider"
    /\ draws = <<>>
    /\ params \in MockCriteria
    /\ env = NoEnv
    /\ stdout = "utf-8"
    /\ config = NoConfig
    /\ sheets = NoSheets
    /\ client = "mock"
    /\ source = NoSource
    /\ search_params_list = <<>>
    /\ idx = 0
    /\ properties = <<>>
    /\ events = <<>>
    /\ raised = "none"
    /\ sheet_result = Returned(<<>>)

SpecProvider == InitProvider /\ [][CallMockApi]_vars

(***************************************************************************)
(* Properties of the criteria source (checked under SpecReader)             *)
(***************************************************************************)

\* The worksheet was opened and read without an access error.
Reachable(src) == src.auth = "ok" /\ src.open = "ok" /\ src.fetch = "ok"

\* Some header cell, trimmed and lower-cased, is one of the location aliases.
HasLocationColumn(w) ==
    w # <<>> /\ \E c \in 1..Len(w[1]) :
                    LowerOf(StripOf(w[1][c])) \in {"location", "city", "area"}

\* Positions (in the worksheet) of the data rows that are not entirely blank and
\* hold a non-blank location cell, for the location column at position col.
ValidRows(w, col) ==
    {k \in 2..Len(w) : /\ \E c \in 1..Len(w[k]) : StripOf(w[k][c]) # ""
                       /\ col <= Len(w[k])
                       /\ StripOf(w[k][col]) # ""}

\* The j-th smallest element of a set of row positions.
NthOf(S, j) == CHOOSE k \in S : Cardinality({m \in S : m < k}) = j - 1

LocationColumnOf(w) == FindColumnIndex(Headers(w), LocationNames)[1]

\* C5: for every worksheet with a resolvable location column and at least one
\* valid data row, get_search_parameters returns a non-empty list with one
\* record per valid row (not entirely blank, non-blank trimmed location cell),
\* in the order of those rows; the other rows contribute nothing and raise nothing.
C5_OneRecordPerValidRow ==
    (/\ pc = "read"
     /\ Reachable(source)
     /\ HasLocationColumn(source.all_values)
     /\ ValidRows(source.all_values, LocationColumnOf(source.all_values)) # {})
    => LET w == source.all_values
           col == LocationColumnOf(w)
           valid == ValidRows(w, col)
       IN /\ sheet_result.exc = "none"
          /\ sheet_result.value # <<>>
          /\ Len(sheet_result.value) = Cardinality(valid)
          /\ \A j \in 1..Len(sheet_result.value) :
                 sheet_result.value[j].location = StripOf(w[NthOf(valid, j)][col])

\* C5 witness: two records were returned in row order from a worksheet whose
\* first data row was skipped (blank, or without a location cell).
C5_Witness ==
    /\ pc = "read"
    /\ Reachable(source)
    /\ HasLocationColumn(source.all_values)
    /\ Len(source.all_values) = 4
    /\ ValidRows(source.all_values, LocationColumnOf(source.all_values)) = {3, 4}
    /\ sheet_result.exc = "none"
    /\ Len(sheet_result.value) = 2
    /\ sheet_result.value[1].location # sheet_result.value[2].location

\* C6: for every worksheet that has a location column but no valid data row,
\* get_search_parameters raises the "no usable data" error; it never returns
\* an empty list.
C6_NoValidRowsRaises ==
    /\ (/\ pc = "read"
        /\ Reachable(source)
        /\ HasLocationColumn(source.all_values)
        /\ ValidRows(source.all_values, LocationColumnOf(source.all_values)) = {})
       => sheet_result = Raises("ValueError:no_valid_parameters")
    /\ pc = "read" => ~(sheet_result.exc = "none" /\ sheet_result.value = <<>>)

\* C6 witness: a worksheet with a location column and data rows, none of them
\* valid, was read and the error was raised.
C6_Witness ==
    /\ pc = "read"
    /\ Reachable(source)
    /\ HasLocationColumn(source.all_values)
    /\ Len(source.all_values) >= 3
    /\ \E k \in 2..Len(source.all_values) : ~RowIsEmpty(source.all_values[k])
    /\ ValidRows(source.all_values, LocationColumnOf(source.all_values)) = {}
    /\ sheet_result.exc = "ValueError:no_valid_parameters"

(***************************************************************************)
(* Properties of the synthetic provider (checked under SpecProvider)        *)
(***************************************************************************)

\* The listing generated by the i-th loop iteration of the latest call, before
\* the list was sorted.
Generated(i) == MockListing(params, draws[i])

\* Both bedroom bounds are present and equal to k.
BedroomsPinnedTo(k) == params.min_bedrooms = Some(k) /\ params.max_bedrooms = Some(k)

\* Both price bounds are present and equal to p.
PricePinnedTo(p) == params.min_price = Some(p) /\ params.max_price = Some(p)

\* Values the pinned bounds of the criteria take.
PinnedBedrooms == {b[1] : b \in {params.min_bedrooms} \ {None}}

PinnedPrices == {b[1] : b \in {params.min_price} \ {None}}

\* Half-width of the window around a pinned price: the largest random offset.
PriceWindow == 50000

\* C7 as stated: with minBedrooms = maxBedrooms = k, for every integer k,
\* every listing of the synthetic provider has bedrooms = k.
C7_AsStated ==
    pc = "fetched" =>
        \A k \in PinnedBedrooms :
            BedroomsPinnedTo(k) =>
                \A i \in 1..Len(properties) : properties[i].bedrooms = k

\* C7 amended: with minBedrooms = maxBedrooms = k for a non-zero integer k,
\* every listing of the synthetic provider has bedrooms = k (a bound of 0 is
\* treated as absent, so the drawn count 1..5 is kept).
C7_PinnedBedrooms ==
    pc = "fetched" =>
        \A k \in PinnedBedrooms :
            (BedroomsPinnedTo(k) /\ k # 0) =>
                \A i \in 1..Len(properties) : properties[i].bedrooms = k

\* C7 witness: a call with both bounds 2 whose draws were below, at and above 2.
C7_Witness ==
    /\ pc = "fetched"
    /\ BedroomsPinnedTo(2)
    /\ \E i, j, l \in 1..Len(draws) :
           draws[i].bedrooms < 2 /\ draws[j].bedrooms = 2 /\ draws[l].bedrooms > 2
    /\ \A i \in 1..Len(properties) : properties[i].bedrooms = 2

\* C8 as stated: with minPrice = maxPrice = p, for every integer p, every
\* listing price lies in [p - 50000, p + 50000].
C8_AsStated ==
    pc = "fetched" =>
        \A p \in PinnedPrices :
            PricePinnedTo(p) =>
                \A i \in 1..Len(properties) :
                    /\ properties[i].price >= p - PriceWindow
                    /\ properties[i].price <= p + PriceWindow

\* C8 amended: with minPrice = maxPrice = p and 30,000 <= p <= 2,050,000, every
\* listing price lies in [p - 50000, p + 50000]; outside that range of p (and
\* for p = 0, which is treated as absent) the price can leave the window.
C8_PinnedPriceWindow ==
    pc = "fetched" =>
        \A p \in PinnedPrices :
            (/\ PricePinnedTo(p)
             /\ p >= PriceFloor - PriceWindow
             /\ p <= PriceCeiling + PriceWindow) =>
                \A i \in 1..Len(properties) :
                    /\ properties[i].price >= p - PriceWindow
                    /\ properties[i].price <= p + PriceWindow

\* C8 witness: a call with both bounds 450,000 in which one generated price was
\* below the bounds and one above, and a listing sits on the window's edge.
C8_Witness ==
    /\ pc = "fetched"
    /\ PricePinnedTo(450000)
    /\ \E i, j \in 1..Len(draws) :
           /\ VaryPrice(BasePrice(LowerOf(params.location), Generated(i).property_type)
                        + (Generated(i).bedrooms - BedroomBase) * BedroomStep,
                        draws[i].percent) < 450000
           /\ VaryPrice(BasePrice(LowerOf(params.location), Generated(j).property_type)
                        + (Generated(j).bedrooms - BedroomBase) * BedroomStep,
                        draws[j].percent) > 450000
    /\ properties[1].price = 450000 - PriceWindow

\* C9: under any criteria, every listing of the synthetic provider has
\* 80,000 <= price <= 2,000,000.
C9_PriceWithinAbsoluteBounds ==
    pc = "fetched" =>
        \A i \in 1..Len(properties) :
            properties[i].price >= 80000 /\ properties[i].price <= 2000000

\* C9 witness: a call whose criteria push the price below the floor (a negative
\* maximum price) returned listings priced at the floor.
C9_Witness ==
    /\ pc = "fetched"
    /\ params.max_price = Some(-100000)
    /\ \E i \in 1..Len(properties) : properties[i].price = 80000

\* C10: the list returned by the synthetic provider is sorted ascending by
\* (post-clamp) price.
C10_SortedByPrice ==
    pc = "fetched" =>
        \A i \in 1..(Len(properties) - 1) :
            properties[i].price <= properties[i + 1].price

\* C10 witness: a call whose listings were generated out of price order.
C10_Witness ==
    /\ pc = "fetched"
    /\ Len(properties) = MaxProperties
    /\ \E i \in 1..(Len(draws) - 1) : Generated(i).price > Generated(i + 1).price
    /\ properties[1].price < properties[Len(properties)].price

(***************************************************************************)
(* Properties of a whole run (checked under Spec and SpecDriven)            *)
(***************************************************************************)

\* Some call of the given kind was made for the given record.
HasEvent(op, rec) ==
    \E j \in 1..Len(events) : events[j].op = op /\ events[j].rec = rec

\* The criteria source fails fatally: credentials, spreadsheet or worksheet
\* unreachable, empty worksheet, no location column, or no valid data row.
SourceFatal(src) ==
    \/ ~Reachable(src)
    \/ src.all_values = <<>>
    \/ ~HasLocationColumn(src.all_values)
    \/ ValidRows(src.all_values, LocationColumnOf(src.all_values)) = {}

\* The documented fallback record.
LondonFallback ==
    [location |-> "London", min_price |-> <<300000>>, max_price |-> <<600000>>,
     min_bedrooms |-> <<2>>, max_bedrooms |-> <<4>>, property_type |-> <<"house">>,
     radius_miles |-> <<>>]

\* The position of the run once the loop body of record rec has ended.
PositionAfter(rec) ==
    /\ raised = "none"
    /\ idx = rec + 1
    /\ pc = (IF rec < Len(search_params_list) THEN "search" ELSE "done")

\* The run has moved on from record rec: the loop stands at the next record
\* or is over, and if the run ended on an exception it is the next record's
\* own header printout that raised it.
StartedAfter(rec) ==
    /\ idx = rec + 1
    /\ pc \in {"search", "done", "crashed"}
    /\ pc = "done" <=> rec = Len(search_params_list)
    /\ pc = "search" => raised = "none"
    /\ pc = "crashed" =>
           /\ raised = "UnicodeEncodeError"
           /\ ~PrintsCriteria(search_params_list[idx], stdout)

\* C1: when the criteria source fails fatally (credentials file missing,
\* spreadsheet or worksheet unreachable, empty worksheet, missing location
\* column, zero valid rows), get_search_parameters_from_sheets does not raise
\* and returns exactly the one fallback record, and in every such run a
\* listing fetch and a report dispatch are attempted for it.
C1_FallbackOnFatalSource ==
    (SourceFatal(source) /\ HasEvent("read_criteria", 0)) =>
        /\ search_params_list = <<LondonFallback>>
        /\ pc \in {"done", "crashed"} => (HasEvent("fetch", 1) /\ HasEvent("send", 1))

\* C2: a record whose listing fetch returns an empty list gets no delivery
\* call, and the run goes on with the next record; a delivery call is made for
\* a record only right after a fetch for it that returned a non-empty list.
C2_NoDeliveryForEmptyList ==
    \A j \in 1..Len(events) :
        /\ (events[j].op = "fetch" /\ events[j].ok /\ events[j].count = 0) =>
               /\ ~HasEvent("send", events[j].rec)
               /\ j = Len(events) => (pc = "report" /\ raised = "none")
               /\ j < Len(events) => events[j + 1] = Event("skip", events[j].rec, TRUE, 0)
               /\ j + 1 = Len(events) => StartedAfter(events[j].rec)
               /\ j + 1 < Len(events) =>
                      (events[j + 2].op = "fetch" /\ events[j + 2].rec = events[j].rec + 1)
        /\ events[j].op = "send" =>
               /\ j > 1
               /\ events[j - 1].op = "fetch"
               /\ events[j - 1].rec = events[j].rec
               /\ events[j - 1].count > 0
               /\ events[j].count = events[j - 1].count

\* C2 witness: the fetch for record 1 returned an empty list and was skipped,
\* then record 2 was fetched and its report dispatched.
C2_Witness ==
    /\ Len(events) = 4
    /\ events[1] = Event("fetch", 1, TRUE, 0)
    /\ events[2].op = "skip" /\ events[2].rec = 1
    /\ events[3].op = "fetch" /\ events[3].rec = 2 /\ events[3].count > 0
    /\ events[4].op = "send" /\ events[4].rec = 2

\* C3: a failed delivery for record i (authentication failure, transport
\* error or any other exception inside send_email) does not raise and does not
\* stop the run: the loop moves to record i + 1, whose fetch is the next call,
\* and a run that ends has fetched every record and dispatched every non-empty
\* list.
C3_DeliveryFailureIsolated ==
    \A j \in 1..Len(events) :
        (events[j].op = "send" /\ ~events[j].ok) =>
            /\ raised \notin SmtpOutcomes
            /\ j = Len(events) => PositionAfter(events[j].rec)
            /\ j < Len(events) =>
                   (events[j + 1].op = "fetch" /\ events[j + 1].rec = events[j].rec + 1)
            /\ pc = "done" =>
                   \A i \in 1..Len(search_params_list) :
                       /\ HasEvent("fetch", i)
                       /\ HasEvent("send", i) \/ HasEvent("skip", i)
                       /\ HasEvent("skip", i) =>
                              \E m \in 1..Len(events) :
                                  events[m] = Event("fetch", i, TRUE, 0)

\* C4: building the provider in live mode with an empty credential fails in
\* the constructor and ends the run before the criteria are read, a listing is
\* fetched or a report is dispatched; in mock mode the constructor succeeds
\* with or without a credential.
C4_LiveWithoutCredentialAborts ==
    /\ (~config.use_mock /\ config.api_key = "") =>
           /\ pc \in {"configured", "crashed"}
           /\ pc = "crashed" => raised = "ValueError:api_key_required"
           /\ client = "unbuilt"
           /\ events = <<>>
           /\ search_params_list = <<>>
    /\ (config.use_mock /\ pc # "configured" /\ client # "double") =>
           (client = "mock" /\ raised # "ValueError:api_key_required")

\* C4 witness: the constructor raised for a live configuration without a
\* credential and the run ended there.
C4_Witness ==
    /\ ~config.use_mock
    /\ config.api_key = ""
    /\ pc = "crashed"
    /\ raised = "ValueError:api_key_required"
    /\ events = <<>>

\* The criteria of the Manchester flat scenario.
ManchesterFlat ==
    [location |-> "Manchester", min_price |-> <<>>, max_price |-> <<>>,
     min_bedrooms |-> <<2>>, max_bedrooms |-> <<2>>, property_type |-> <<"flat">>,
     radius_miles |-> <<>>]

\* C11: for the criteria {Manchester, minBedrooms 2, maxBedrooms 2, type
\* "flat"}, under every random outcome, the synthetic provider returns between
\* 3 and 8 listings, each with bedrooms = 2, a property type containing "flat",
\* a postcode prefix of the Manchester pool and a price in 80,000..2,000,000.
C11_ManchesterFlatScenario ==
    (pc = "fetched" /\ params = ManchesterFlat) =>
        /\ Len(properties) >= 3
        /\ Len(properties) <= 8
        /\ \A i \in 1..Len(properties) :
               /\ properties[i].bedrooms = 2
               /\ properties[i].property_type = "flat"
               /\ properties[i].postcode_area \in {"M1", "M2", "M3", "M4", "M14", "M20"}
               /\ properties[i].price >= 80000
               /\ properties[i].price <= 2000000

\* C11 witness: a call for the scenario returned 8 listings although the draws
\* asked for other bedroom counts and for other positions of the type list,
\* with the first and the last prefix of the Manchester pool among them.
C11_Witness ==
    /\ pc = "fetched"
    /\ params = ManchesterFlat
    /\ Len(properties) = 8
    /\ \E i, j \in 1..Len(draws) : draws[i].bedrooms = 5 /\ draws[j].type_pick = 3
    /\ \E i, j \in 1..Len(properties) :
           properties[i].postcode_area = "M1" /\ properties[j].postcode_area = "M20"

\* Values the maximum price of the criteria takes.
RequestedMaxPrices == {b[1] : b \in {params.max_price} \ {None}}

\* C14: for every criteria whose maxPrice is present and >= 80,000, every
\* listing of the synthetic provider has price <= maxPrice, whatever minPrice
\* is (also above maxPrice: the maximum is applied after the minimum); a
\* listing exceeds the requested maxPrice only when that lies below 80,000
\* (zero, treated as absent, included).
C14_MaxPriceRespected ==
    pc = "fetched" =>
        \A m \in RequestedMaxPrices :
            /\ m >= 80000 => \A i \in 1..Len(properties) : properties[i].price <= m
            /\ (\E i \in 1..Len(properties) : properties[i].price > m) => m < 80000

\* C14 witness: a call with minPrice 2,050,000 above maxPrice 450,000 raised a
\* generated price to the minimum and then brought it under the maximum.
C14_Witness ==
    /\ pc = "fetched"
    /\ params.min_price = Some(2050000)
    /\ params.max_price = Some(450000)
    /\ \E i \in 1..Len(properties) : properties[i].price = 450000 - 10000
    /\ \A i \in 1..Len(properties) : properties[i].price <= 450000

\* C12: criteria records are processed in source order, one at a time: the
\* fetch of record i+1 comes directly after record i's report was dispatched
\* (successfully or not) or skipped, which itself follows record i's returned
\* fetch; no record is fetched twice, and while a record waits for its fetch
\* every record before it has been fetched and reported.
C12_SequentialProcessing ==
    /\ \A k \in 1..Len(events) :
           events[k].op = "fetch" =>
               /\ \A j \in 1..Len(events) :
                      (events[j].op = "fetch" /\ events[j].rec = events[k].rec) => j = k
               /\ \A j \in 1..(k - 1) :
                      events[j].op = "fetch" => events[j].rec < events[k].rec
               /\ events[k].rec > 1 =>
                      /\ k > 2
                      /\ events[k - 1].op \in {"send", "skip"}
                      /\ events[k - 1].rec = events[k].rec - 1
                      /\ events[k - 2].op = "fetch"
                      /\ events[k - 2].rec = events[k].rec - 1
                      /\ events[k - 2].ok
    /\ pc = "search" =>
           /\ ~HasEvent("fetch", idx)
           /\ \A r \in 1..(idx - 1) :
                  HasEvent("fetch", r) /\ (HasEvent("send", r) \/ HasEvent("skip", r))

\* C12 witness: a finished run over three records, the first skipped, the
\* second dispatched without success, the third fetched last.
C12_Witness ==
    /\ pc = "done"
    /\ Len(search_params_list) = 3
    /\ Len(events) = 6
    /\ events[1].op = "fetch" /\ events[1].rec = 1
    /\ events[2].op = "skip" /\ events[2].rec = 1
    /\ events[3].op = "fetch" /\ events[3].rec = 2
    /\ events[4].op = "send" /\ events[4].rec = 2 /\ ~events[4].ok
    /\ events[5].op = "fetch" /\ events[5].rec = 3

\* C13: in live mode with a credential the first search_properties call
\* raises NotImplementedError and nothing catches it: the run ends at the
\* first record, no report is dispatched or skipped for any record and no
\* later record is fetched; a run that reaches a delivery call is in mock mode.
C13_LiveModeEndsAtFirstFetch ==
    /\ client = "live" =>
           /\ pc \notin {"report", "done"}
           /\ \A k \in 1..Len(events) :
                  /\ events[k].op \notin {"send", "skip"}
                  /\ events[k].op = "fetch" =>
                         /\ events[k].rec = 1
                         /\ ~events[k].ok
                         /\ k = Len(events)
                         /\ pc = "crashed"
                         /\ raised = "NotImplementedError"
    /\ (\E k \in 1..Len(events) : events[k].op = "send") =>
           (config.use_mock /\ client # "live")

\* C13 witness: a live run with a credential read two criteria records and
\* ended on the fetch of the first.
C13_Witness ==
    /\ client = "live"
    /\ config.api_key # ""
    /\ Len(search_params_list) = 2
    /\ pc = "crashed"
    /\ raised = "NotImplementedError"
    /\ Len(events) = 2
    /\ events[2] = Event("fetch", 1, FALSE, 0)

====
